---- MODULE Spec2Model ----
(***************************************************************************)
(* Model of better-sqlite3-utils (src/index.js): connectDb, disconnectDb,  *)
(* prepStmt and execStmt, together with the 'exit' listeners connectDb     *)
(* registers on the process.  The embedded engine (better-sqlite3) is not  *)
(* part of the repository: each engine call is an input of the action that *)
(* makes it (it returns or it throws), and the model records on which      *)
(* handle it was made.                                                     *)
(***************************************************************************)
EXTENDS Integers, Sequences, FiniteSets

VARIABLES
    env,        \* process.env.SQLITE3_FILE: Undefined or a string value
    dbs,        \* every database the engine has opened, in the order of opening
    exitHooks,  \* the listeners registered with process.on('exit'), as db indices
    exited,     \* the process has emitted 'exit'
    wstmt,      \* the wrapped statement the caller holds (last result of prepStmt)
    call        \* the last call made to the module and what came of it

vars == <<env, dbs, exitHooks, exited, wstmt, call>>

(***************************************************************************)
(* Bounds.                                                                 *)
(***************************************************************************)
MaxDbs == 2
MaxCloseCalls == 2
MaxParams == 2

(***************************************************************************)
(* JavaScript values.  Every value is a record of the same shape so that   *)
(* values of different types can be compared.                              *)
(***************************************************************************)
Undefined == [t |-> "undefined", v |-> "", keys |-> <<>>, kids |-> <<>>]
Null == [t |-> "null", v |-> "", keys |-> <<>>, kids |-> <<>>]
Bool(b) == [t |-> "boolean", v |-> b, keys |-> <<>>, kids |-> <<>>]
Num(n) == [t |-> "number", v |-> n, keys |-> <<>>, kids |-> <<>>]
Str(s) == [t |-> "string", v |-> s, keys |-> <<>>, kids |-> <<>>]
Obj(ks, vs) == [t |-> "object", v |-> "", keys |-> ks, kids |-> vs]
Arr(vs) == [t |-> "array", v |-> "", keys |-> <<>>, kids |-> vs]

\* typeof x
TypeOf(x) == IF x.t \in {"null", "object", "array"} THEN "object" ELSE x.t

\* ToBoolean(x), as used by ||= and by the conditional operator
Truthy(x) ==
    CASE x.t \in {"undefined", "null"} -> FALSE
      [] x.t = "boolean" -> x.v = "true"
      [] x.t = "number" -> x.v \notin {"0", "NaN"}
      [] x.t = "string" -> x.v # ""
      [] OTHER -> TRUE

MemoryFile == Str(":memory:")

(***************************************************************************)
(* Call records.  call describes the last call: its inputs, what the       *)
(* module handed to the engine, whether the engine threw, and how the call *)
(* ended: "returned", "engine-error" (an error thrown by the engine left   *)
(* the call) or "layer-error" (an error thrown by index.js itself left it).*)
(***************************************************************************)
NoCall ==
    [op |-> "none", args |-> <<>>, params |-> <<>>, envBefore |-> Undefined,
     passed |-> Undefined, db |-> 0,
     method |-> "", handed |-> <<>>, engine |-> "not-called",
     outcome |-> "returned"]

NoStmt == [db |-> 0, sql |-> <<>>, singleton |-> Undefined, method |-> ""]

(***************************************************************************)
(* connectDb                                                               *)
(***************************************************************************)
\* "Handle optional arguments": a single argument of type object is the options.
OptionalArgs(args) ==
    LET filename == IF Len(args) >= 1 THEN args[1] ELSE Undefined
        options == IF Len(args) >= 2 THEN args[2] ELSE Undefined
    IN  IF Len(args) = 1 /\ TypeOf(args[1]) = "object"
        THEN [filename |-> Undefined, options |-> filename]
        ELSE [filename |-> filename, options |-> options]

\* The defaulting written with ??= : only an absent value is replaced.
DefaultFilenameNullish(filename, e) ==
    IF filename.t \notin {"undefined", "null"} THEN [filename |-> filename, env |-> e]
    ELSE IF e.t \notin {"undefined", "null"} THEN [filename |-> e, env |-> e]
    ELSE [filename |-> MemoryFile, env |-> MemoryFile]

\* The defaulting written with || : the environment variable is read, never set.
DefaultFilenameNoAssign(filename, e) ==
    IF Truthy(filename) THEN [filename |-> filename, env |-> e]
    ELSE IF Truthy(e) THEN [filename |-> e, env |-> e]
    ELSE [filename |-> MemoryFile, env |-> e]

\* filename ||= process.env.SQLITE3_FILE ||= ":memory:"
\* The inner assignment happens only when filename is falsy, and assigns only
\* when the variable is falsy (unset or empty).
DefaultFilename(filename, e) ==
    IF Truthy(filename) THEN [filename |-> filename, env |-> e]
    ELSE IF Truthy(e) THEN [filename |-> e, env |-> e]
    ELSE [filename |-> MemoryFile, env |-> MemoryFile]

\* new Database(filename, options): the engine opens a database or throws; it
\* throws for every filename that is not a string.
EngineOpens(filename, openOk) == openOk /\ filename.t = "string"

\* The statements after new Database(): the pragma, then the exit listener.
\* A throwing pragma leaves connectDb before process.on('exit', ...) is reached.
HookRegistered(pragmaOk) == pragmaOk

NewDb(pragmaOk) ==
    [open |-> TRUE, wal |-> pragmaOk,
     returned |-> HookRegistered(pragmaOk), closeCalls |-> 0, stale |-> FALSE]

connectDb(args, openOk, pragmaOk) ==
    LET a == OptionalArgs(args)
        r == DefaultFilename(a.filename, env)
        opened == EngineOpens(r.filename, openOk)
        id == Len(dbs) + 1
    IN  /\ ~exited
        /\ env' = r.env
        /\ dbs' = IF opened THEN Append(dbs, NewDb(pragmaOk)) ELSE dbs
        /\ exitHooks' = IF opened /\ HookRegistered(pragmaOk)
                        THEN Append(exitHooks, id) ELSE exitHooks
        /\ call' = [NoCall EXCEPT !.op = "connectDb", !.args = args,
                       !.envBefore = env, !.passed = r.filename,
                       !.db = IF opened THEN id ELSE 0,
                       !.engine = IF opened /\ pragmaOk THEN "ok" ELSE "threw",
                       !.outcome = IF opened /\ pragmaOk THEN "returned"
                                   ELSE "engine-error"]
        /\ UNCHANGED <<exited, wstmt>>

(***************************************************************************)
(* db.close(), as the engine sees it: the call is counted on the handle;   *)
(* an open handle is released unless the engine throws; a call on a handle *)
(* that is already closed is a use of a closed handle.                     *)
(***************************************************************************)
EngineClose(d, closeOk) ==
    [d EXCEPT !.closeCalls = d.closeCalls + 1,
              !.stale = d.stale \/ ~d.open,
              !.open = d.open /\ ~closeOk]

(***************************************************************************)
(* disconnectDb: try { db.close() } catch (err) {}                         *)
(***************************************************************************)
\* disconnectDb without its try/catch: what db.close() throws leaves the call.
DisconnectOutcomeNoCatch(threw) == IF threw THEN "engine-error" ELSE "returned"

\* What leaves the try statement when db.close() threw or not.
DisconnectOutcome(threw) == "returned"

\* h = 0 stands for an argument that is no handle (db.close is then a
\* TypeError raised inside the try block).
disconnectDb(h, closeOk) ==
    /\ ~exited
    /\ h # 0 => dbs[h].returned /\ dbs[h].closeCalls < MaxCloseCalls
    /\ dbs' = IF h = 0 THEN dbs ELSE [dbs EXCEPT ![h] = EngineClose(dbs[h], closeOk)]
    /\ call' = [NoCall EXCEPT !.op = "disconnectDb", !.db = h,
                   !.engine = IF h = 0 THEN "not-called"
                              ELSE IF closeOk THEN "ok" ELSE "threw",
                   !.outcome = DisconnectOutcome(h = 0 \/ ~closeOk)]
    /\ UNCHANGED <<env, exitHooks, exited, wstmt>>

(***************************************************************************)
(* Process exit: the 'exit' listeners run in registration order, each      *)
(* calling db.close() on its database.  A listener that throws ends the    *)
(* emit: listeners registered after it are not called.  k is the position  *)
(* of the first listener whose close throws (Len(exitHooks) + 1: none).    *)
(***************************************************************************)
ExitHook(d, closeOk) == EngineClose(d, closeOk)

HookPosition(h) == CHOOSE i \in 1..Len(exitHooks) : exitHooks[i] = h

processExit(k) ==
    /\ ~exited
    /\ exited' = TRUE
    /\ dbs' = [h \in 1..Len(dbs) |->
                 IF \E i \in 1..Len(exitHooks) : exitHooks[i] = h /\ i <= k
                 THEN ExitHook(dbs[h], HookPosition(h) < k)
                 ELSE dbs[h]]
    /\ call' = [NoCall EXCEPT !.op = "exit",
                   !.engine = IF exitHooks = <<>> THEN "not-called"
                              ELSE IF k > Len(exitHooks) THEN "ok" ELSE "threw",
                   !.outcome = IF k > Len(exitHooks) THEN "returned"
                               ELSE "engine-error"]
    /\ UNCHANGED <<env, exitHooks, wstmt>>

(***************************************************************************)
(* SQL text: a sequence of one-character strings.                          *)
(***************************************************************************)
UpperCase == <<"A","B","C","D","E","F","G","H","I","J","K","L","M",
               "N","O","P","Q","R","S","T","U","V","W","X","Y","Z">>
LowerCase == <<"a","b","c","d","e","f","g","h","i","j","k","l","m",
               "n","o","p","q","r","s","t","u","v","w","x","y","z">>

\* Case folding of the "i" flag, on the ASCII letters.
FoldCase(c) ==
    IF \E i \in 1..Len(UpperCase) : UpperCase[i] = c
    THEN LowerCase[CHOOSE i \in 1..Len(UpperCase) : UpperCase[i] = c]
    ELSE c

\* The character class \s of a JavaScript regular expression (its ASCII part).
RegExpSpace(c) == c \in {" ", "\t", "\n", "\r", "\f"}

SelectWord == <<"s","e","l","e","c","t">>

\* /\s*select\s+/i matched with its first character at position i + 1 of sql:
\* n white-space characters, the six letters in either case, one white-space
\* character (the first of \s+).
KeywordAt(sql, i) ==
    \E n \in 0..Len(sql) :
        /\ i + n + Len(SelectWord) + 1 <= Len(sql)
        /\ \A j \in 1..n : RegExpSpace(sql[i + j])
        /\ \A j \in 1..Len(SelectWord) : FoldCase(sql[i + n + j]) = SelectWord[j]
        /\ RegExpSpace(sql[i + n + Len(SelectWord) + 1])

\* The pattern without its ^ anchor: the keyword is found anywhere in the text.
selectKeywordUnanchored(sql) ==
    IF \E i \in 0..Len(sql) : KeywordAt(sql, i)
    THEN CHOOSE i \in 0..Len(sql) :
            KeywordAt(sql, i) /\ \A j \in 0..(i - 1) : ~KeywordAt(sql, j)
    ELSE -1

\* sql.search(selectKeyword) with selectKeyword = /^\s*select\s+/i: the index
\* of the match, which ^ pins to the start of the text, or -1.
selectKeyword(sql) == IF KeywordAt(sql, 0) THEN 0 ELSE -1

(***************************************************************************)
(* prepStmt                                                                *)
(***************************************************************************)
\* sql.search(selectKeyword) < 0 ? "run" : singleton ? "get" : "all"
PrepMethod(sql, singleton) ==
    IF selectKeyword(sql) < 0 THEN "run"
    ELSE IF Truthy(singleton) THEN "get" ELSE "all"

\* db.prepare(sql) comes first: when the engine throws (bad SQL, or a closed
\* connection) nothing is returned.  The prepare on a closed handle is a use
\* of a closed handle.
prepStmt(h, sql, singleton, prepOk) ==
    LET ok == prepOk /\ dbs[h].open
    IN  /\ ~exited
        /\ dbs[h].returned
        /\ dbs' = [dbs EXCEPT ![h].stale = dbs[h].stale \/ ~dbs[h].open]
        /\ wstmt' = IF ok
                    THEN [db |-> h, sql |-> sql, singleton |-> singleton,
                          method |-> PrepMethod(sql, singleton)]
                    ELSE wstmt
        /\ call' = [NoCall EXCEPT !.op = "prepStmt", !.db = h,
                       !.method = IF ok THEN PrepMethod(sql, singleton) ELSE "",
                       !.engine = IF ok THEN "ok" ELSE "threw",
                       !.outcome = IF ok THEN "returned" ELSE "engine-error"]
        /\ UNCHANGED <<env, exitHooks, exited>>

(***************************************************************************)
(* execStmt                                                                *)
(***************************************************************************)
\* The own enumerable string-keyed property values of an object, in the order
\* of Object.values: the keys that are array indices first, ascending, then
\* the other keys in the order of their creation.  An array yields its
\* elements.
IndexKeys == <<"0", "1", "2", "3">>

IsIndexKey(k) == \E n \in 1..Len(IndexKeys) : IndexKeys[n] = k

RECURSIVE IndexValues(_, _)
IndexValues(o, n) ==
    IF n > Len(IndexKeys) THEN <<>>
    ELSE (IF \E i \in 1..Len(o.keys) : o.keys[i] = IndexKeys[n]
          THEN <<o.kids[CHOOSE i \in 1..Len(o.keys) : o.keys[i] = IndexKeys[n]]>>
          ELSE <<>>) \o IndexValues(o, n + 1)

RECURSIVE NamedValues(_, _)
NamedValues(o, i) ==
    IF i > Len(o.keys) THEN <<>>
    ELSE (IF IsIndexKey(o.keys[i]) THEN <<>> ELSE <<o.kids[i]>>)
         \o NamedValues(o, i + 1)

ObjectValues(o) ==
    IF o.t = "array" THEN o.kids
    ELSE IndexValues(o, 1) \o NamedValues(o, 1)

\* Object.values(null) throws a TypeError, and typeof null is "object".
ObjectValuesThrows(param) == param.t = "null"

\* (param) => typeof param === "object" ? Object.values(param) : param
MapParam(param) ==
    IF TypeOf(param) = "object" THEN Arr(ObjectValues(param)) ELSE param

\* Array.prototype.flat(Infinity)
RECURSIVE Flat(_)
Flat(list) ==
    IF list = <<>> THEN <<>>
    ELSE (IF Head(list).t = "array" THEN Flat(Head(list).kids) ELSE <<Head(list)>>)
         \o Flat(Tail(list))

FlattenParams(params) == Flat([i \in 1..Len(params) |-> MapParam(params[i])])

\* The map callback throws for the first null parameter.
MapThrows(params) == \E i \in 1..Len(params) :
    TypeOf(params[i]) = "object" /\ ObjectValuesThrows(params[i])

\* switch (method): the three cases call the engine, the default throws.
MethodKnown(method) == method \in {"run", "get", "all"}

\* The engine method called for a method specification.
Dispatch(method) == method

execStmt(params, execOk) ==
    LET h == wstmt.db
        ownError == MapThrows(params) \/ ~MethodKnown(wstmt.method)
        ok == execOk /\ dbs[h].open
    IN  /\ ~exited
        /\ wstmt # NoStmt
        /\ dbs' = IF ownError THEN dbs
                  ELSE [dbs EXCEPT ![h].stale = dbs[h].stale \/ ~dbs[h].open]
        /\ call' = [NoCall EXCEPT !.op = "execStmt", !.db = h, !.params = params,
                       !.method = IF ownError THEN "" ELSE Dispatch(wstmt.method),
                       !.handed = IF ownError THEN <<>> ELSE FlattenParams(params),
                       !.engine = IF ownError THEN "not-called"
                                  ELSE IF ok THEN "ok" ELSE "threw",
                       !.outcome = IF ownError THEN "layer-error"
                                   ELSE IF ok THEN "returned" ELSE "engine-error"]
        /\ UNCHANGED <<env, exitHooks, exited, wstmt>>

(***************************************************************************)
(* Inputs.                                                                 *)
(***************************************************************************)
Options == Obj(<<"readonly">>, <<Bool("true")>>)

\* connectDb(), connectDb(x) and connectDb(x, options)
ConnectArgs ==
    LET first == {Undefined, Null, Str(""), Str("a.db"), Options}
    IN  {<<>>} \cup {<<x>> : x \in first}
               \cup {<<x, Options>> : x \in first}

\* What the environment (and the .env file read by dotenv) may hold at start.
EnvAtStart == {Undefined, Str(""), Str("e.db")}

Singletons == {Undefined, Bool("false"), Bool("true"), Num("1")}

SqlSelect1 == <<"s","e","l","e","c","t"," ","1">>
SqlSelectStar == <<"S","E","L","E","C","T","*","F","R","O","M"," ","t">>
SqlDelete == <<"d","e","l","e","t","e"," ","f","r","o","m"," ","t">>
SqlInsertSelect ==
    <<"i","n","s","e","r","t"," ","i","n","t","o"," ","t"," ",
      "s","e","l","e","c","t"," ","1">>

SqlTexts ==
    LET leading == {<<>>, <<" ">>, <<"\n", "\t">>}
        words == {SelectWord, <<"S","E","L","E","C","T">>,
                  <<"S","e","l","E","c","T">>, <<"s","e","l","e","c">>,
                  <<"u","p","d","a","t","e">>}
        tails == {<<" ", "1">>, <<"\n", "1">>, <<"*", "f", "r", "o", "m", " ", "t">>,
                  <<"(", "1", ")">>, <<"s", " ", "1">>}
    IN  {l \o w \o t : l \in leading, w \in words, t \in tails}
        \cup {SqlSelectStar, SqlDelete, SqlInsertSelect}

FewSqlTexts == {SqlSelect1, SqlDelete}

One == Num("1")
Two == Num("2")
Three == Num("3")

ParamValues ==
    {Null, Undefined, One, Str("a"),
     Obj(<<>>, <<>>),
     Obj(<<"a", "b">>, <<One, Two>>),
     Obj(<<"b", "1">>, <<One, Two>>),
     Obj(<<"a", "b">>, <<Arr(<<One, Arr(<<Two>>)>>), Three>>),
     Obj(<<"a">>, <<Obj(<<"x">>, <<Three>>)>>),
     Arr(<<>>),
     Arr(<<One, Arr(<<Two, Arr(<<Three>>)>>)>>),
     Arr(<<Obj(<<"x">>, <<Three>>), Two>>)}

RECURSIVE ListsUpTo(_, _)
ListsUpTo(S, n) ==
    IF n = 0 THEN {<<>>}
    ELSE ListsUpTo(S, n - 1)
         \cup {Append(l, x) : l \in {m \in ListsUpTo(S, n - 1) : Len(m) = n - 1}, x \in S}

ParamLists == ListsUpTo(ParamValues, MaxParams)

FewParamLists == {<<>>, <<One, Arr(<<Two>>)>>, <<Null>>}

(***************************************************************************)
(* The module after require(): nothing is open, no listener is registered. *)
(***************************************************************************)
Init ==
    /\ env \in EnvAtStart
    /\ dbs = <<>>
    /\ exitHooks = <<>>
    /\ exited = FALSE
    /\ wstmt = NoStmt
    /\ call = NoCall

\* What the engine does in a connectDb call: new Database() throws, or it
\* opens and the pragma throws, or both succeed.
EngineOutcomes == {<<FALSE, FALSE>>, <<TRUE, FALSE>>, <<TRUE, TRUE>>}

Connect == \E args \in ConnectArgs, o \in EngineOutcomes :
              Len(dbs) < MaxDbs /\ connectDb(args, o[1], o[2])

ConnectDefault == \E o \in EngineOutcomes : dbs = <<>> /\ connectDb(<<>>, o[1], o[2])

Disconnect == \E h \in 0..Len(dbs), closeOk \in BOOLEAN : disconnectDb(h, closeOk)

Prepare == \E h \in 1..Len(dbs), sql \in FewSqlTexts, prepOk \in BOOLEAN :
              prepStmt(h, sql, Bool("true"), prepOk)

PrepareAny == \E h \in 1..Len(dbs), sql \in SqlTexts, singleton \in Singletons,
                 prepOk \in BOOLEAN : prepStmt(h, sql, singleton, prepOk)

Execute == \E params \in FewParamLists, execOk \in BOOLEAN : execStmt(params, execOk)

ExecuteAny == \E params \in ParamLists, execOk \in BOOLEAN : execStmt(params, execOk)

Exit == \E k \in 1..(Len(exitHooks) + 1) : processExit(k)

\* The life cycle of the handles, over every form of the connectDb call.
Next == Connect \/ Disconnect \/ Prepare \/ Execute \/ Exit

Spec == Init /\ [][Next]_vars

\* Statement preparation over the SQL texts, on a handle that stays open.
NextSql == ConnectDefault \/ PrepareAny \/ Execute

SpecSql == Init /\ [][NextSql]_vars

\* Statement execution over the parameter lists.
NextParams == ConnectDefault \/ Disconnect \/ Prepare \/ ExecuteAny \/ Exit

SpecParams == Init /\ [][NextParams]_vars

(***************************************************************************)
(* Terms the properties are stated in.                                     *)
(***************************************************************************)
SqlSpace(c) == c \in {" ", "\t", "\n", "\r", "\f"}

\* A character that continues an SQL identifier or keyword.
IdentChar(c) ==
    \/ \E i \in 1..Len(LowerCase) : LowerCase[i] = FoldCase(c)
    \/ c \in {"0", "1", "2", "3", "4", "5", "6", "7", "8", "9", "_", "$"}

\* The text is a SELECT statement: after optional white space its first token
\* is the keyword SELECT, in any letter case.
IsSelectStatement(sql) ==
    \E n \in 0..Len(sql) :
        /\ n + Len(SelectWord) <= Len(sql)
        /\ \A j \in 1..n : SqlSpace(sql[j])
        /\ \A j \in 1..Len(SelectWord) : FoldCase(sql[n + j]) = SelectWord[j]
        /\ n + Len(SelectWord) < Len(sql) => ~IdentChar(sql[n + Len(SelectWord) + 1])

FetchMode(singleton) == IF Truthy(singleton) THEN "get" ELSE "all"

\* A value with every array in it replaced by its elements, at every depth.
RECURSIVE Flattened(_)
Flattened(x) ==
    IF x.t # "array" THEN <<x>>
    ELSE IF x.kids = <<>> THEN <<>>
    ELSE Flattened(Head(x.kids)) \o Flattened(Arr(Tail(x.kids)))

\* What one call parameter contributes to the list: a scalar itself, an object
\* its property values in insertion order, an array its elements; arrays are
\* flattened throughout.
Expanded(param) ==
    IF param.t = "object" THEN Flattened(Arr(param.kids)) ELSE Flattened(param)

RECURSIVE Concatenated(_)
Concatenated(params) ==
    IF params = <<>> THEN <<>>
    ELSE Expanded(Head(params)) \o Concatenated(Tail(params))

\* connectDb was called with an object as its only argument.
OnlyOptions(args) == Len(args) = 1 /\ TypeOf(args[1]) = "object"

\* A file name argument was given.
FileNameGiven(args) ==
    Len(args) >= 1 /\ ~OnlyOptions(args) /\ args[1].t \notin {"undefined", "null"}

\* A file name argument that is not the empty string was given.
FileNameUsable(args) == FileNameGiven(args) /\ args[1] # Str("")

Hooked(h) == \E i \in 1..Len(exitHooks) : exitHooks[i] = h

(***************************************************************************)
(* C1: every SQL text that is a SELECT statement is prepared with the      *)
(* method "all" when the singleton flag is absent or falsy and "get" when  *)
(* it is truthy, and execStmt calls that method of the statement.          *)
(* The code routes SELECT*FROM t to "run".                                 *)
(***************************************************************************)
C1_SelectIsFetched ==
    /\ wstmt # NoStmt /\ IsSelectStatement(wstmt.sql)
          => wstmt.method = FetchMode(wstmt.singleton)
    /\ call.op = "execStmt" /\ call.engine # "not-called"
          /\ IsSelectStatement(wstmt.sql)
          => call.method = FetchMode(wstmt.singleton)

(***************************************************************************)
(* C2: every SQL text that is not a SELECT statement is prepared with the  *)
(* method "run", whatever the singleton flag; "get" and "all" are given to *)
(* SELECT statements only.                                                 *)
(***************************************************************************)
C2_NonSelectIsRun ==
    /\ wstmt # NoStmt /\ ~IsSelectStatement(wstmt.sql) => wstmt.method = "run"
    /\ call.op = "prepStmt" /\ call.outcome = "returned"
          /\ ~IsSelectStatement(wstmt.sql)
          => call.method \notin {"get", "all"}

C2_Witness ==
    /\ call.op = "prepStmt" /\ call.outcome = "returned"
    /\ wstmt.sql = SqlInsertSelect
    /\ Truthy(wstmt.singleton)
    /\ wstmt.method = "run"

(***************************************************************************)
(* C3: the list execStmt hands to the engine is the concatenation, in      *)
(* order, of each scalar parameter, each object parameter's property       *)
(* values in insertion order and each array's elements, flattened through  *)
(* every depth; it holds no array.  The code throws for a null parameter   *)
(* and puts the values of index-like keys first.                           *)
(***************************************************************************)
C3_ParamsFlattened ==
    call.op = "execStmt" =>
        /\ call.engine # "not-called"
        /\ call.handed = Concatenated(call.params)
        /\ \A i \in 1..Len(call.handed) : call.handed[i].t # "array"

(***************************************************************************)
(* C4, as stated: connectDb opens the file name argument when one is       *)
(* given, otherwise the value of SQLITE3_FILE when it is set, otherwise    *)
(* ":memory:"; an object given as the only argument is the options.        *)
(* The code skips an empty file name and an empty variable.                *)
(***************************************************************************)
C4_AsStated ==
    call.op = "connectDb" =>
        call.passed = IF FileNameGiven(call.args) THEN call.args[1]
                      ELSE IF call.envBefore.t = "string" THEN call.envBefore
                      ELSE MemoryFile

(***************************************************************************)
(* C4, amended: connectDb opens the file name argument when one is given   *)
(* and is not empty, otherwise the value of SQLITE3_FILE when it is set    *)
(* and not empty, otherwise ":memory:"; an object given as the only        *)
(* argument is the options.                                                *)
(***************************************************************************)
C4_FileNamePriority ==
    call.op = "connectDb" =>
        call.passed = IF FileNameUsable(call.args) THEN call.args[1]
                      ELSE IF call.envBefore.t = "string" /\ call.envBefore.v # ""
                           THEN call.envBefore
                      ELSE MemoryFile

C4_Witness ==
    /\ call.op = "connectDb"
    /\ call.args = <<Str("")>>
    /\ call.envBefore = Str("e.db")
    /\ call.passed = Str("e.db")
    /\ call.outcome = "returned"

C6_ClosedExactlyOnce ==
    \A h \in 1..Len(dbs) :
        dbs[h].returned =>
            /\ dbs[h].closeCalls <= 1
            /\ exited /\ call.outcome = "returned" => dbs[h].closeCalls = 1

(***************************************************************************)
(* C7: what leaves connectDb, prepStmt and execStmt is an error of the     *)
(* engine, unmodified: the layer raises nothing of its own and catches     *)
(* nothing.  The code raises a TypeError of its own for a null parameter.  *)
(***************************************************************************)
C7_OnlyEngineErrors ==
    call.op \in {"connectDb", "prepStmt", "execStmt"} =>
        /\ call.outcome # "layer-error"
        /\ call.outcome = "engine-error" <=> call.engine = "threw"

(***************************************************************************)
(* C8: no operation of the module, the exit listener included, invokes an  *)
(* engine operation on a handle that is already closed.                    *)
(* The exit listener closes a handle disconnectDb has closed.              *)
(***************************************************************************)
C8_ClosedHandleNotUsed ==
    \A h \in 1..Len(dbs) : ~dbs[h].stale

(***************************************************************************)
(* C9: every database the engine opened inside connectDb has an exit       *)
(* listener, also when the pragma step failed; after process exit no       *)
(* opened database is left open; every handle returned is in WAL mode.     *)
(* The code registers the listener after the pragma, so not when it fails. *)
(***************************************************************************)
C9_ClosedOnExit ==
    /\ \A h \in 1..Len(dbs) : Hooked(h)
    /\ exited => \A h \in 1..Len(dbs) : ~dbs[h].open
    /\ \A h \in 1..Len(dbs) : dbs[h].returned => dbs[h].wal

(***************************************************************************)
(* C10: connectDb sets SQLITE3_FILE to ":memory:" exactly when it is       *)
(* called without a usable file name while the variable is unset or empty; *)
(* in every other case, and in every other operation, the variable keeps   *)
(* its value; once ":memory:", it stays ":memory:".                        *)
(***************************************************************************)
C10_EnvChange ==
    [][/\ call'.op = "connectDb" =>
            env' = IF ~FileNameUsable(call'.args) /\ env \in {Undefined, Str("")}
                   THEN MemoryFile ELSE env
       /\ call'.op # "connectDb" => env' = env
       /\ env = MemoryFile => env' = MemoryFile]_vars

C10_Witness ==
    /\ call.op = "connectDb"
    /\ call.args = <<Undefined, Options>>
    /\ call.outcome = "returned"
    /\ call.envBefore = MemoryFile
    /\ call.passed = MemoryFile
    /\ env = MemoryFile
    /\ Len(dbs) = 2
    /\ \E h \in 1..Len(dbs) : ~dbs[h].open

====
